---- MODULE Spec2Model ----
(***************************************************************************)
(* Signature database of goava (src/lib/db/db.go): the loader LoadSigs,    *)
(* the Bloom pre-filter LoadBloom and the queries HasSigWithHash,          *)
(* HasSigWithSize, GetItemByHash and GetHDBStats.                          *)
(*                                                                         *)
(* Go strings are sequences of one-character strings, compared bytewise.   *)
(* A signature line is split and its size field parsed as the code does.   *)
(* LoadSigs is followed line by line: pc is the loader's position inside   *)
(* filepath.Walk, and `parsed` records the lines the scanner has returned. *)
(***************************************************************************)
EXTENDS Integers, Sequences, FiniteSets, TLC

\* ------------------------------------------------------------------ bounds

\* Lines read by all the loads of one DB.
MaxLines == 2
\* Bits of the Bloom filter per stored hash, and its number of hash functions.
BloomBitsPerItem == 2
MaxFiles == 2
BloomK == 2

\* The default of the bloom-fpr flag, 0.001, in thousandths.
DefaultFalsePositiveRate == 1

\* One, in thousandths: rates are kept as whole thousandths.
RateScale == 1000

\* ------------------------------------------------------- strings and bytes

\* The characters of the modelled files, in ascending byte order.
Alphabet ==
  <<"*","+",",","-",".","0","1","2","3","4","5","6","7","8","9",":",
    "A","B","C","D","E","F","G","H","I","J","K","L","M","N","O","P","Q","R",
    "S","T","U","V","W","X","Y","Z","_",
    "a","b","c","d","e","f","g","h","i","j","k","l","m","n","o","p","q","r",
    "s","t","u","v","w","x","y","z">>

OrdTable == [c \in {Alphabet[i] : i \in 1..Len(Alphabet)} |->
               CHOOSE i \in 1..Len(Alphabet) : Alphabet[i] = c]

Ord(c) == OrdTable[c]

\* a < b on Go strings.
RECURSIVE StrLess(_, _)
StrLess(a, b) ==
  IF b = <<>> THEN FALSE
  ELSE IF a = <<>> THEN TRUE
  ELSE IF Ord(Head(a)) < Ord(Head(b)) THEN TRUE
  ELSE IF Ord(Head(a)) > Ord(Head(b)) THEN FALSE
  ELSE StrLess(Tail(a), Tail(b))

\* strings.Split(s, sep) for a one-character separator: count(sep)+1 fields.
RECURSIVE SplitAcc(_, _, _, _)
SplitAcc(s, sep, cur, acc) ==
  IF s = <<>> THEN Append(acc, cur)
  ELSE IF Head(s) = sep THEN SplitAcc(Tail(s), sep, <<>>, Append(acc, cur))
  ELSE SplitAcc(Tail(s), sep, Append(cur, Head(s)), acc)

Split(s, sep) == SplitAcc(s, sep, <<>>, <<>>)

Digits == <<"0","1","2","3","4","5","6","7","8","9">>

IsDigit(c) == \E d \in 1..10 : Digits[d] = c

DigitVal(c) == (CHOOSE d \in 1..10 : Digits[d] = c) - 1

RECURSIVE ParseUint(_, _)
ParseUint(s, acc) ==
  IF s = <<>> THEN acc ELSE ParseUint(Tail(s), acc * 10 + DigitVal(Head(s)))

\* strconv.ParseInt(s, 10, 64): an optional sign, then one or more decimal
\* digits. The modelled fields have few digits, so the int64 range error
\* cannot occur and int(fileSize) is the identity.
ParseInt(s) ==
  LET signed == s # <<>> /\ Head(s) \in {"+", "-"}
      body   == IF signed THEN Tail(s) ELSE s
  IN  IF body = <<>> \/ \E i \in 1..Len(body) : ~IsDigit(body[i])
      THEN [err |-> TRUE, val |-> 0]
      ELSE [err |-> FALSE,
            val |-> IF signed /\ Head(s) = "-"
                    THEN 0 - ParseUint(body, 0) ELSE ParseUint(body, 0)]

\* ----------------------------------------------------- sorting and search

RECURSIVE InsertInt(_, _)
InsertInt(s, x) ==
  IF s = <<>> THEN <<x>>
  ELSE IF x < Head(s) THEN <<x>> \o s
  ELSE <<Head(s)>> \o InsertInt(Tail(s), x)

\* A sort that leaves the sequence in the order of reading.
SortIntsKeepsOrder(s) == s

\* slices.Sort(db.sizes)
RECURSIVE SortInts(_)
SortInts(s) == IF s = <<>> THEN <<>> ELSE InsertInt(SortInts(Tail(s)), Head(s))

RECURSIVE InsertStr(_, _)
InsertStr(s, x) ==
  IF s = <<>> THEN <<x>>
  ELSE IF StrLess(x, Head(s)) THEN <<x>> \o s
  ELSE <<Head(s)>> \o InsertStr(Tail(s), x)

\* slices.Sort(db.hashes)
RECURSIVE SortStrings(_)
SortStrings(s) ==
  IF s = <<>> THEN <<>> ELSE InsertStr(SortStrings(Tail(s)), Head(s))

\* sort.SearchInts(a, x): binary search for the first index (from 0) whose
\* element is >= x, as sort.Search runs it, whether or not a is sorted.
RECURSIVE SearchIntsFrom(_, _, _, _)
SearchIntsFrom(a, x, i, j) ==
  IF i < j
  THEN LET h == (i + j) \div 2
       IN  IF ~(a[h + 1] >= x) THEN SearchIntsFrom(a, x, h + 1, j)
           ELSE SearchIntsFrom(a, x, i, h)
  ELSE i

SearchInts(a, x) == SearchIntsFrom(a, x, 0, Len(a))

\* sort.SearchStrings(a, x)
RECURSIVE SearchStringsFrom(_, _, _, _)
SearchStringsFrom(a, x, i, j) ==
  IF i < j
  THEN LET h == (i + j) \div 2
       IN  IF StrLess(a[h + 1], x) THEN SearchStringsFrom(a, x, h + 1, j)
           ELSE SearchStringsFrom(a, x, i, h)
  ELSE i

SearchStrings(a, x) == SearchStringsFrom(a, x, 0, Len(a))

\* ------------------------------------------------------------ Bloom filter

Max(a, b) == IF a > b THEN a ELSE b

RECURSIVE SumOrd(_)
SumOrd(s) == IF s = <<>> THEN 0 ELSE Ord(Head(s)) + SumOrd(Tail(s))

\* The i-th bit position of a string in a filter of m bits.
BloomLocation(h, i, m) == (SumOrd(h) + i * (Len(h) + 1)) % m

NilBloom == [alloc |-> FALSE, m |-> 0, k |-> 0, bits |-> {}]

\* bloom.NewWithEstimates(n, p): a filter of at least one bit and one hash.
BloomNewWithEstimates(n) ==
  [alloc |-> TRUE, m |-> Max(1, n * BloomBitsPerItem), k |-> Max(1, BloomK),
   bits |-> {}]

BloomAddString(bf, h) ==
  [bf EXCEPT !.bits = @ \cup {BloomLocation(h, i, bf.m) : i \in 0..(bf.k - 1)}]

BloomTestString(bf, h) ==
  \A i \in 0..(bf.k - 1) : BloomLocation(h, i, bf.m) \in bf.bits

RECURSIVE BloomAddAll(_, _)
BloomAddAll(bf, hs) ==
  IF hs = <<>> THEN bf ELSE BloomAddAll(BloomAddString(bf, Head(hs)), Tail(hs))

\* ----------------------------------------------------------------- inputs

\* Values of the UnknownSizeAction field: the two documented ones and another.
UnknownSizeActions == {0, 1, 2}

\* The extensions LoadSigs switches on.
HashDBExts == {".hdb", ".hsb", ".hdu", ".hsu"}
CsvExts == {".csv"}

\* Extensions of the signature files the walk meets.
FileExts == {".hdb", ".csv"}

\* Lines of hash-database files.
HdbLines ==
  { <<"a","b",":","7",":","X">>,
    <<"a","b",":","3",":","Y">>,
    <<"a","a",":","*",":","W">>,
    <<"o","n","l","y","o","n","e","f","i","e","l","d">>,
    <<"c",":","z","z",":","Q">> }

\* Lines of tabular (.csv) files.
CsvLines ==
  { <<"a","c",",","m","d","5",",","5",",","K",",","n">>,
    <<"b",",","s","h","a","1",",","5",",","V">> }

LinesOf(e) == IF e \in HashDBExts THEN HdbLines ELSE CsvLines

\* The separator of the format a file extension selects.
SepOf(e) == IF e \in HashDBExts THEN ":" ELSE ","

\* ------------------------------------------------------------------ state

VARIABLES
  UseBloom,           \* DB.UseBloom
  UnknownSizeAction,  \* DB.UnknownSizeAction
  sizeAlwaysTrue,     \* DB.sizeAlwaysTrue
  bloomFilter,        \* DB.bloomFilter (alloc = FALSE: nil)
  hashes,             \* DB.hashes
  sizes,              \* DB.sizes
  hashToItem,         \* DB.hashToItem (alloc = FALSE: nil map)
  pc,                 \* "idle", "walk" (in filepath.Walk), "file" (in a
                      \* file's scanner loop), "crashed" (a panic)
  call,               \* the load in progress or last returned
  err,                \* its result: "none", "nil" or "error"
  ext,                \* extension of the open file
  parsed,             \* the lines read so far, each with its separator
  loadStart,          \* Len(parsed) when the load in progress, or the last
                      \* one, was called
  initAt,             \* Len(parsed) at the last call of Init
  BloomFalsePositiveRate,  \* DB.BloomFalsePositiveRate, in thousandths
  skipSize,           \* the skip-size flag of the scan command
  stats,              \* the counters of the scan command
  scan,               \* the scanFile call in progress, or the last one
  workers             \* the query each worker has in progress

\* The state of the scan command and of the workers that query the DB.
driverVars == <<skipSize, stats, scan, workers>>

\* The configuration of the filter and the mark of the current load.
loadVars == <<BloomFalsePositiveRate, loadStart, initAt>>

vars == <<UseBloom, UnknownSizeAction, sizeAlwaysTrue, bloomFilter, hashes,
          sizes, hashToItem, pc, call, err, ext, parsed, loadStart, initAt,
          BloomFalsePositiveRate, skipSize, stats, scan, workers>>

NilMap == [alloc |-> FALSE, items |-> <<>>]

\* The workers that query a loaded DB.
Workers == {"w1", "w2"}

\* A file to scan: its size and the MD5 digest of its content. NoFile stands
\* for no file at all.
NoFile == [size |-> 0, digest |-> <<>>]

\* No scanFile call yet.
NoScan ==
  [pc |-> "idle", file |-> NoFile, sizeAsked |-> FALSE, sizeExists |-> FALSE,
   hashAsked |-> FALSE, readBefore |-> 0, report |-> "none"]

\* A worker with no query in progress.
NoResult ==
  [panic |-> FALSE, val |-> FALSE, item |-> {}, err |-> "none", count |-> 0]
IdleWorker ==
  [st |-> "idle", op |-> "none", hash |-> <<>>, size |-> 0,
   alone |-> NoResult, ret |-> NoResult]

\* The scan command before its first file, and the workers before their
\* first query.
InitDriver ==
  /\ stats = [ScannedFiles |-> 0, InfectedFiles |-> 0, DataScanned |-> 0,
              DataRead |-> 0]
  /\ scan = NoScan
  /\ workers = [w \in Workers |-> IdleWorker]

\* New(), or a DB literal as in scan.go: every unexported field is zero.
InitDB ==
  /\ UseBloom \in BOOLEAN
  /\ UnknownSizeAction \in UnknownSizeActions
  /\ sizeAlwaysTrue = FALSE
  /\ bloomFilter = NilBloom
  /\ hashes = <<>>
  /\ sizes = <<>>
  /\ hashToItem = NilMap
  /\ pc = "idle"
  /\ call = "none"
  /\ err = "none"
  /\ ext = ""
  /\ parsed = <<>>
  /\ loadStart = 0
  /\ initAt = 0

\* Values of the BloomFalsePositiveRate field, in thousandths: the zero
\* value New() leaves, which is outside (0, 1), and the default of the scan
\* command's flag.
FalsePositiveRates == {0, DefaultFalsePositiveRate}

\* A DB made by New() or by a literal: the rate is zero unless the caller
\* sets it, UseBloom and UnknownSizeAction are the caller's choice.
Init ==
  /\ InitDB
  /\ BloomFalsePositiveRate \in FalsePositiveRates
  /\ skipSize = FALSE
  /\ InitDriver

\* ---------------------------------------------------------------- records

\* The switch on len(values[0]) of the hash-database branch.
HashTypeOf(h) ==
  IF Len(h) = 32 THEN <<"m","d","5">>
  ELSE IF Len(h) = 40 THEN <<"s","h","a","1">>
  ELSE IF Len(h) = 64 THEN <<"s","h","a","2","5","6">>
  ELSE <<>>

HdbItem(values, fileSize) ==
  [Hash |-> values[1], HashType |-> HashTypeOf(values[1]),
   Filesize |-> fileSize, MalwareName |-> values[3], Comment |-> <<>>]

CsvItem(values, fileSize) ==
  [Hash |-> values[1], HashType |-> values[2], Filesize |-> fileSize,
   MalwareName |-> values[4], Comment |-> values[5]]

\* A map write that keeps the record already stored under the key.
MapPutKeepsFirst(m, k, v) == [m EXCEPT !.items = @ @@ (k :> v)]

\* db.hashToItem[k] = v
MapPut(m, k, v) == [m EXCEPT !.items = (k :> v) @@ @]

\* ------------------------------------------------------------- operations

\* DB.Init, called while no load is running: a fresh, empty hashToItem;
\* hashes, sizes, the switch and the filter are left as they are.
DBInit ==
  /\ pc = "idle"
  /\ hashToItem' = [alloc |-> TRUE, items |-> <<>>]
  /\ initAt' = Len(parsed)
  /\ UNCHANGED <<BloomFalsePositiveRate, loadStart, driverVars>>
  /\ UNCHANGED <<UseBloom, UnknownSizeAction, sizeAlwaysTrue, bloomFilter,
                 hashes, sizes, pc, call, err, ext, parsed>>

\* A load that starts from a cleared switch.
BeginLoadClearsSwitch(c) ==
  /\ pc = "idle"
  /\ pc' = "walk"
  /\ call' = c
  /\ err' = "none"
  /\ sizeAlwaysTrue' = FALSE
  /\ loadStart' = Len(parsed)
  /\ UNCHANGED <<BloomFalsePositiveRate, initAt, driverVars>>
  /\ UNCHANGED <<UseBloom, UnknownSizeAction, bloomFilter, hashes, sizes,
                 hashToItem, ext, parsed>>

\* A call of LoadSigs, alone or from LoadAll, enters filepath.Walk.
BeginLoad(c) ==
  /\ pc = "idle"
  /\ pc' = "walk"
  /\ call' = c
  /\ err' = "none"
  /\ loadStart' = Len(parsed)
  /\ UNCHANGED <<BloomFalsePositiveRate, initAt, driverVars>>
  /\ UNCHANGED <<UseBloom, UnknownSizeAction, sizeAlwaysTrue, bloomFilter,
                 hashes, sizes, hashToItem, ext, parsed>>

LoadSigs == BeginLoad("LoadSigs")

LoadAll == BeginLoad("LoadAll")

\* The walk meets a directory or a file of another extension.
WalkSkip ==
  /\ pc = "walk"
  /\ UNCHANGED vars

\* The walk opens a signature file.
WalkOpen(e) ==
  /\ pc = "walk"
  /\ pc' = "file"
  /\ ext' = e
  /\ UNCHANGED <<loadVars, driverVars>>
  /\ UNCHANGED <<UseBloom, UnknownSizeAction, sizeAlwaysTrue, bloomFilter,
                 hashes, sizes, hashToItem, call, err, parsed>>

\* filepath.Walk, os.OpenFile or the scanner reports an error: LoadSigs
\* returns it at once, without sorting.
WalkError ==
  /\ pc \in {"walk", "file"}
  /\ pc' = "idle"
  /\ err' = "error"
  /\ ext' = ""
  /\ UNCHANGED <<loadVars, driverVars>>
  /\ UNCHANGED <<UseBloom, UnknownSizeAction, sizeAlwaysTrue, bloomFilter,
                 hashes, sizes, hashToItem, call, parsed>>

\* An unknown-size switch whose Skip case falls through.
UnknownSizeBranchNoSkip(action) == IF action = 1 THEN "trip" ELSE "keep"

\* The branch taken for a "*" size: "skip" (continue), "trip" (set
\* sizeAlwaysTrue and keep the record) or "keep" (keep the record).
UnknownSizeBranch(action) ==
  IF action = 1 THEN "trip" ELSE IF action = 0 THEN "skip" ELSE "keep"

\* What one non-empty line of a hash-database file does to the DB:
\* [res, trip, add, hash, size, put, item], where res is "continue" (next
\* line), "error" (LoadSigs returns the error) or "panic".
HdbLine(line, action, mapAlloc) ==
  LET values == Split(line, ":")
      none   == [res |-> "continue", trip |-> FALSE, add |-> FALSE,
                 hash |-> <<>>, size |-> 0, put |-> FALSE,
                 item |-> HdbItem(<<<<>>, <<>>, <<>>>>, 0)]
  IN  IF Len(values) < 2 THEN [none EXCEPT !.res = "panic"]
      ELSE
        LET wild   == values[2] = <<"*">>
            branch == UnknownSizeBranch(action)
            n      == ParseInt(values[2])
            size   == IF wild THEN -1 ELSE n.val
            trip   == wild /\ branch = "trip"
        IN  IF wild /\ branch = "skip" THEN none
            ELSE IF ~wild /\ n.err THEN [none EXCEPT !.res = "error"]
            ELSE IF Len(values) < 3 \/ ~mapAlloc
            THEN [none EXCEPT !.res = "panic", !.trip = trip, !.add = TRUE,
                              !.hash = values[1], !.size = size]
            ELSE [res |-> "continue", trip |-> trip, add |-> TRUE,
                  hash |-> values[1], size |-> size, put |-> TRUE,
                  item |-> HdbItem(values, size)]

\* The same for one non-empty line of a .csv file.
CsvLine(line, mapAlloc) ==
  LET values == Split(line, ",")
      none   == [res |-> "continue", trip |-> FALSE, add |-> FALSE,
                 hash |-> <<>>, size |-> 0, put |-> FALSE,
                 item |-> HdbItem(<<<<>>, <<>>, <<>>>>, 0)]
  IN  IF Len(values) < 3 THEN [none EXCEPT !.res = "panic"]
      ELSE
        LET n == ParseInt(values[3])
        IN  IF n.err THEN [none EXCEPT !.res = "error"]
            ELSE IF Len(values) < 5 \/ ~mapAlloc
            THEN [none EXCEPT !.res = "panic", !.add = TRUE,
                              !.hash = values[1], !.size = n.val]
            ELSE [res |-> "continue", trip |-> FALSE, add |-> TRUE,
                  hash |-> values[1], size |-> n.val, put |-> TRUE,
                  item |-> CsvItem(values, n.val)]

\* The body of the scanner loop: an empty line is passed over.
LineEffect(e, line, action, mapAlloc) ==
  IF Len(line) = 0
  THEN [res |-> "continue", trip |-> FALSE, add |-> FALSE, hash |-> <<>>,
        size |-> 0, put |-> FALSE, item |-> HdbItem(<<<<>>, <<>>, <<>>>>, 0)]
  ELSE IF e \in HashDBExts THEN HdbLine(line, action, mapAlloc)
  ELSE CsvLine(line, mapAlloc)

\* One turn of the scanner loop of the open file. A panic ends the process
\* with the file still open.
ScanLine(line) ==
  /\ pc = "file"
  /\ Len(parsed) < MaxLines
  /\ LET r == LineEffect(ext, line, UnknownSizeAction, hashToItem.alloc)
     IN  /\ sizeAlwaysTrue' = (sizeAlwaysTrue \/ r.trip)
         /\ hashes' = IF r.add THEN Append(hashes, r.hash) ELSE hashes
         /\ sizes' = IF r.add THEN Append(sizes, r.size) ELSE sizes
         /\ hashToItem' = IF r.put THEN MapPut(hashToItem, r.hash, r.item)
                          ELSE hashToItem
         /\ pc' = IF r.res = "continue" THEN "file"
                  ELSE IF r.res = "error" THEN "idle" ELSE "crashed"
         /\ err' = IF r.res = "error" THEN "error" ELSE err
         /\ ext' = IF r.res = "error" THEN "" ELSE ext
  /\ parsed' = Append(parsed, [sep |-> SepOf(ext), line |-> line])
  /\ UNCHANGED <<loadVars, driverVars>>
  /\ UNCHANGED <<UseBloom, UnknownSizeAction, bloomFilter, call>>

\* The scanner reaches the end of the open file without error.
EndOfFile ==
  /\ pc = "file"
  /\ pc' = "walk"
  /\ ext' = ""
  /\ UNCHANGED <<loadVars, driverVars>>
  /\ UNCHANGED <<UseBloom, UnknownSizeAction, sizeAlwaysTrue, bloomFilter,
                 hashes, sizes, hashToItem, call, err, parsed>>

\* A LoadBloom whose loop leaves out the first hash.
BuildBloomSkipsFirst(hs) ==
  BloomAddAll(BloomNewWithEstimates(Len(hs)),
              IF hs = <<>> THEN hs ELSE Tail(hs))

\* The filter LoadBloom builds from a hash list.
BuildBloom(hs) == BloomAddAll(BloomNewWithEstimates(Len(hs)), hs)

\* DB.LoadBloom on the hash list hs.
BloomAfterLoad(use, old, hs) == IF use THEN BuildBloom(hs) ELSE old

\* A rate the filter's size can be estimated from: strictly between 0 and 1.
ValidRate(p) == 0 < p /\ p < RateScale

\* The filter NewWithEstimates leaves when the estimate from a rate outside
\* (0, 1) does not make it panic: one bit, one hash.
BloomDegenerate == [alloc |-> TRUE, m |-> 1, k |-> 1, bits |-> {}]

\* The outcomes of DB.LoadBloom: [panic, filter]. With a rate outside (0, 1)
\* the estimate of the filter's size is the logarithm of a number that is
\* not positive, or zero; what the conversion of that to a bit count gives
\* depends on the platform: the call panics or leaves a degenerate filter.
LoadBloomOutcomes(use, old, hs, p) ==
  IF use /\ ~ValidRate(p)
  THEN {[panic |-> TRUE, filter |-> old],
        [panic |-> FALSE, filter |-> BloomAddAll(BloomDegenerate, hs)]}
  ELSE {[panic |-> FALSE, filter |-> BloomAfterLoad(use, old, hs)]}

\* The walk ends: LoadSigs sorts sizes and hashes and returns nil; LoadAll
\* then runs LoadBloom and returns nil.
WalkDone ==
  /\ pc = "walk"
  /\ sizes' = SortInts(sizes)
  /\ hashes' = SortStrings(hashes)
  /\ \E o \in (IF call = "LoadAll"
               THEN LoadBloomOutcomes(UseBloom, bloomFilter, hashes',
                                      BloomFalsePositiveRate)
               ELSE {[panic |-> FALSE, filter |-> bloomFilter]}) :
       /\ bloomFilter' = o.filter
       /\ pc' = IF o.panic THEN "crashed" ELSE "idle"
       /\ err' = IF o.panic THEN err ELSE "nil"
  /\ UNCHANGED <<loadVars, driverVars>>
  /\ UNCHANGED <<UseBloom, UnknownSizeAction, sizeAlwaysTrue, hashToItem,
                 call, ext, parsed>>

\* DB.LoadBloom called on its own.
LoadBloom ==
  /\ pc = "idle"
  /\ \E o \in LoadBloomOutcomes(UseBloom, bloomFilter, hashes,
                                BloomFalsePositiveRate) :
       /\ bloomFilter' = o.filter
       /\ pc' = IF o.panic THEN "crashed" ELSE "idle"
  /\ UNCHANGED <<loadVars, driverVars>>
  /\ UNCHANGED <<UseBloom, UnknownSizeAction, sizeAlwaysTrue, hashes, sizes,
                 hashToItem, call, err, ext, parsed>>

Next ==
  \/ DBInit
  \/ LoadSigs
  \/ LoadAll
  \/ WalkSkip
  \/ \E e \in FileExts : WalkOpen(e)
  \/ WalkError
  \/ \E line \in LinesOf(ext) : ScanLine(line)
  \/ EndOfFile
  \/ WalkDone
  \/ LoadBloom

Spec == Init /\ [][Next]_vars

\* ----------------------------------------------------------------- queries

\* A HasSigWithHash that trusts the search index without comparing.
HasSigWithHashNoCompare(hash) ==
  IF UseBloom
  THEN IF bloomFilter.alloc
       THEN [panic |-> FALSE, val |-> BloomTestString(bloomFilter, hash),
             err |-> "nil"]
       ELSE [panic |-> TRUE, val |-> FALSE, err |-> "nil"]
  ELSE LET index == SearchStrings(hashes, hash)
       IN  [panic |-> FALSE, val |-> index < Len(hashes), err |-> "nil"]

\* DB.HasSigWithHash: [panic, val, err]. A nil bloomFilter with UseBloom set
\* is a nil dereference.
HasSigWithHash(hash) ==
  IF UseBloom
  THEN IF bloomFilter.alloc
       THEN [panic |-> FALSE, val |-> BloomTestString(bloomFilter, hash),
             err |-> "nil"]
       ELSE [panic |-> TRUE, val |-> FALSE, err |-> "nil"]
  ELSE LET index == SearchStrings(hashes, hash)
       IN  [panic |-> FALSE,
            val |-> (index < Len(hashes) /\ hashes[index + 1] = hash),
            err |-> "nil"]

\* DB.HasSigWithSize: [val, err].
HasSigWithSize(size) ==
  IF sizeAlwaysTrue THEN [val |-> TRUE, err |-> "nil"]
  ELSE LET index == SearchInts(sizes, size)
       IN  [val |-> (index < Len(sizes) /\ sizes[index + 1] = size),
            err |-> "nil"]

\* DB.GetItemByHash: [item, err]; item is {} for a nil pointer, else {record}.
GetItemByHash(hash) ==
  LET index == SearchStrings(hashes, hash)
  IN  IF index >= Len(hashes) \/ hashes[index + 1] # hash
      THEN [item |-> {}, err |-> "not found"]
      ELSE [item |-> IF hash \in DOMAIN hashToItem.items
                     THEN {hashToItem.items[hash]} ELSE {},
            err |-> "nil"]

\* DB.GetItemBySize: the outcomes [item, err] the call can have. The range
\* over the map visits the records in an order the runtime picks, so any
\* record of that size can be the one returned.
GetItemBySize(size) ==
  LET hits == {k \in DOMAIN hashToItem.items :
                 hashToItem.items[k].Filesize = size}
  IN  IF hits = {} THEN {[item |-> {}, err |-> "not found"]}
      ELSE {[item |-> {hashToItem.items[k]}, err |-> "nil"] : k \in hits}

\* Statistics that count the entries of the map.
GetHDBStatsCountsMap == [Count |-> Cardinality(DOMAIN hashToItem.items)]

\* DB.GetHDBStats
GetHDBStats == [Count |-> Len(hashes)]

\* The last load was a LoadAll that returned nil: the scan command and the
\* workers query the DB from then on.
DatabaseLoaded == pc = "idle" /\ err = "nil" /\ call = "LoadAll"

\* ------------------------------------------------------- the scan command

\* The fields of the DB and the position of its loader.
dbVars == <<UseBloom, UnknownSizeAction, sizeAlwaysTrue, bloomFilter, hashes,
            sizes, hashToItem, pc, call, err, ext, parsed>>

\* MD5 digests, in hexadecimal: of the empty content, of "hello", of "world"
\* and of "1234567".
DigestEmpty ==
  <<"d","4","1","d","8","c","d","9","8","f","0","0","b","2","0","4","e","9",
    "8","0","0","9","9","8","e","c","f","8","4","2","7","e">>
DigestHello ==
  <<"5","d","4","1","4","0","2","a","b","c","4","b","2","a","7","6","b","9",
    "7","1","9","d","9","1","1","0","1","7","c","5","9","2">>
DigestWorld ==
  <<"7","d","7","9","3","0","3","7","a","0","7","6","0","1","8","6","5","7",
    "4","b","0","2","8","2","f","2","f","4","3","5","e","7">>
DigestDigits ==
  <<"f","c","e","a","9","2","0","f","7","4","1","2","b","5","d","a","7","b",
    "e","0","c","f","4","2","b","8","c","9","3","7","5","9">>

\* The files the scan command is run on.
ScanFiles ==
  { [size |-> 0, digest |-> DigestEmpty],
    [size |-> 5, digest |-> DigestHello],
    [size |-> 5, digest |-> DigestWorld],
    [size |-> 7, digest |-> DigestDigits] }

\* The signature files of the database the scan command loads: hash-database
\* files with a signature of the empty file, one of "hello" and one of
\* another hash for files of 7 bytes.
ScanExts == {".hdb"}
ScanSigLines ==
  { DigestEmpty \o <<":","0",":","E","m","p","t","y",".","T","e","s","t">>,
    DigestHello \o <<":","5",":","H","e","l","l","o">>,
    <<"a","b",":","7",":","X">> }

\* The DB literal of the scan command: UnknownSizeAction is left zero;
\* UseBloom, the rate and skip-size are flags.
InitScan ==
  /\ InitDB
  /\ UnknownSizeAction = 0
  /\ BloomFalsePositiveRate \in FalsePositiveRates
  /\ skipSize \in BOOLEAN
  /\ InitDriver

\* Run: database.Init(), once, first.
RunInit ==
  /\ call = "none"
  /\ ~hashToItem.alloc
  /\ DBInit

\* Run: database.LoadAll() after database.Init(), once.
RunLoadAll ==
  /\ hashToItem.alloc
  /\ call = "none"
  /\ LoadAll

\* scanFile, up to the size check: open and stat the file, count it, and
\* report an empty file clean at once.
ScanFileStat(f) ==
  /\ DatabaseLoaded
  /\ scan.pc = "idle"
  /\ stats.ScannedFiles < MaxFiles
  /\ stats' = [stats EXCEPT !.ScannedFiles = @ + 1,
                            !.DataScanned = @ + f.size]
  /\ scan' = [pc |-> IF f.size = 0 THEN "idle"
                     ELSE IF skipSize THEN "read" ELSE "size",
              file |-> f, sizeAsked |-> FALSE, sizeExists |-> FALSE,
              hashAsked |-> FALSE, readBefore |-> stats.DataRead,
              report |-> IF f.size = 0 THEN "clean" ELSE "none"]
  /\ UNCHANGED <<dbVars, loadVars, skipSize, workers>>

\* A size check that lets every file through to the read.
AfterSizeCheckAlwaysReads(sizeExists) == "read"

\* Where scanFile goes after the size check.
AfterSizeCheck(sizeExists) == IF sizeExists THEN "read" ELSE "idle"

\* scanFile, the size check: database.HasSigWithSize(int(filesize)).
ScanFileSize ==
  /\ scan.pc = "size"
  /\ LET r == HasSigWithSize(scan.file.size)
     IN  scan' = [scan EXCEPT
                    !.sizeAsked = TRUE,
                    !.sizeExists = r.val,
                    !.pc = IF r.err # "nil" THEN "idle"
                           ELSE AfterSizeCheck(r.val),
                    !.report = IF r.err # "nil" THEN "error"
                               ELSE IF r.val THEN "none" ELSE "clean"]
  /\ UNCHANGED <<dbVars, loadVars, skipSize, stats, workers>>

\* scanFile, the read: io.Copy of the whole file into the MD5 hash.
ScanFileRead ==
  /\ scan.pc = "read"
  /\ stats' = [stats EXCEPT !.DataRead = @ + scan.file.size]
  /\ scan' = [scan EXCEPT !.pc = "hash"]
  /\ UNCHANGED <<dbVars, loadVars, skipSize, workers>>

\* scanFile, the read fails: io.Copy returns an error and scanFile returns.
ScanFileReadError ==
  /\ scan.pc = "read"
  /\ scan' = [scan EXCEPT !.pc = "idle", !.report = "error"]
  /\ UNCHANGED <<dbVars, loadVars, skipSize, stats, workers>>

\* scanFile, the hash check: database.HasSigWithHash(hash) and the report.
ScanFileHash ==
  /\ scan.pc = "hash"
  /\ LET r == HasSigWithHash(scan.file.digest)
     IN  /\ pc' = IF r.panic THEN "crashed" ELSE pc
         /\ scan' = [scan EXCEPT
                       !.hashAsked = TRUE,
                       !.pc = "idle",
                       !.report = IF r.panic \/ r.err # "nil" THEN "error"
                                  ELSE IF r.val THEN "infected" ELSE "clean"]
         /\ stats' = IF ~r.panic /\ r.err = "nil" /\ r.val
                     THEN [stats EXCEPT !.InfectedFiles = @ + 1]
                     ELSE stats
  /\ UNCHANGED <<UseBloom, UnknownSizeAction, sizeAlwaysTrue, bloomFilter,
                 hashes, sizes, hashToItem, call, err, ext, parsed>>
  /\ UNCHANGED <<loadVars, skipSize, workers>>

NextScan ==
  \/ RunInit
  \/ RunLoadAll
  \/ WalkSkip
  \/ \E e \in ScanExts : WalkOpen(e)
  \/ WalkError
  \/ \E line \in ScanSigLines : ScanLine(line)
  \/ EndOfFile
  \/ WalkDone
  \/ \E f \in ScanFiles : ScanFileStat(f)
  \/ ScanFileSize
  \/ ScanFileRead
  \/ ScanFileReadError
  \/ ScanFileHash

SpecScan == InitScan /\ [][NextScan]_vars

\* ------------------------------------------------------------ the workers

\* The signature lines of the database the workers query.
WorkerSigLines == ScanSigLines \cup { <<"a","a",":","*",":","W">> }

\* The calls a worker makes: the method and its argument.
QueryCalls ==
  {[op |-> "HasSigWithSize", hash |-> <<>>, size |-> n] : n \in {5, 6}}
  \cup {[op |-> o, hash |-> h, size |-> 0] :
          o \in {"HasSigWithHash", "GetItemByHash"},
          h \in {DigestHello, DigestWorld}}
  \cup {[op |-> "GetHDBStats", hash |-> <<>>, size |-> 0]}

\* What a query method returns in the current state, in one record shape.
QueryResult(op, hash, size) ==
  IF op = "HasSigWithSize"
  THEN [NoResult EXCEPT !.val = HasSigWithSize(size).val,
                        !.err = HasSigWithSize(size).err]
  ELSE IF op = "HasSigWithHash"
  THEN [NoResult EXCEPT !.panic = HasSigWithHash(hash).panic,
                        !.val = HasSigWithHash(hash).val,
                        !.err = HasSigWithHash(hash).err]
  ELSE IF op = "GetItemByHash"
  THEN [NoResult EXCEPT !.item = GetItemByHash(hash).item,
                        !.err = GetItemByHash(hash).err]
  ELSE [NoResult EXCEPT !.count = GetHDBStats.Count, !.err = "nil"]

\* A worker enters a query method of the loaded DB; alone is what the call
\* returns if no other worker runs before it does.
WorkerCall(w, c) ==
  /\ DatabaseLoaded
  /\ workers[w].st # "called"
  /\ workers' = [workers EXCEPT ![w] =
                   [st |-> "called", op |-> c.op, hash |-> c.hash,
                    size |-> c.size,
                    alone |-> QueryResult(c.op, c.hash, c.size),
                    ret |-> NoResult]]
  /\ UNCHANGED <<dbVars, loadVars, skipSize, stats, scan>>

\* A query that trips the switch on its way out.
WorkerReturnTripsSwitch(w) ==
  /\ workers[w].st = "called"
  /\ workers' = [workers EXCEPT ![w].st = "returned",
                                ![w].ret = QueryResult(workers[w].op,
                                                       workers[w].hash,
                                                       workers[w].size)]
  /\ sizeAlwaysTrue' = TRUE
  /\ UNCHANGED <<UseBloom, UnknownSizeAction, bloomFilter, hashes, sizes,
                 hashToItem, pc, call, err, ext, parsed>>
  /\ UNCHANGED <<loadVars, skipSize, stats, scan>>

\* The query method reads the fields of the DB and returns; a nil filter
\* makes it panic.
WorkerReturn(w) ==
  /\ workers[w].st = "called"
  /\ LET r == QueryResult(workers[w].op, workers[w].hash, workers[w].size)
     IN  /\ workers' = [workers EXCEPT ![w].st = "returned", ![w].ret = r]
         /\ pc' = IF r.panic THEN "crashed" ELSE pc
  /\ UNCHANGED <<UseBloom, UnknownSizeAction, sizeAlwaysTrue, bloomFilter,
                 hashes, sizes, hashToItem, call, err, ext, parsed>>
  /\ UNCHANGED <<loadVars, skipSize, stats, scan>>

NextWorkers ==
  \/ RunInit
  \/ RunLoadAll
  \/ WalkSkip
  \/ \E e \in ScanExts : WalkOpen(e)
  \/ WalkError
  \/ \E line \in WorkerSigLines : ScanLine(line)
  \/ EndOfFile
  \/ WalkDone
  \/ \E w \in Workers : \E c \in QueryCalls : WorkerCall(w, c)
  \/ \E w \in Workers : WorkerReturn(w)

SpecWorkers == Init /\ [][NextWorkers]_vars

\* ------------------------------------------------- what the files declare

\* Every line a load can read, with the separator of its format.
ParsedLines ==
  {[sep |-> sp, line |-> l] :
     sp \in {":", ","}, l \in HdbLines \cup CsvLines \cup WorkerSigLines}

\* strings.Split of every line by its separator, computed once.
SplitLines == [p \in ParsedLines |-> Split(p.line, p.sep)]

\* The fields of a parsed line.
Fields(p) == SplitLines[p]

\* A hash-database line whose size field is the wildcard.
IsWildcard(p) ==
  p.sep = ":" /\ Len(Fields(p)) >= 2 /\ Fields(p)[2] = <<"*">>

\* The index of the size field, and the number of fields a record needs.
SizeField(p) == IF p.sep = ":" THEN 2 ELSE 3
LabelField(p) == IF p.sep = ":" THEN 3 ELSE 4
MinFields(p) == IF p.sep = ":" THEN 3 ELSE 5

\* A line that does not hold a record: too few fields, or a size that is
\* neither a decimal integer nor, in a hash-database file, the wildcard.
Malformed(p) ==
  \/ Len(Fields(p)) < MinFields(p)
  \/ ~IsWildcard(p) /\ ParseInt(Fields(p)[SizeField(p)]).err

\* The lines the loader appends to the hash list and the size list: the
\* size field is there and is a decimal integer, or the wildcard under a
\* policy other than Skip. A line with too few fields after the size is
\* appended before the loader panics on the missing field.
Retained(p) ==
  /\ Len(Fields(p)) >= SizeField(p)
  /\ IF IsWildcard(p) THEN UnknownSizeAction # 0
     ELSE ~ParseInt(Fields(p)[SizeField(p)]).err

RetainedLines == {i \in 1..Len(parsed) : Retained(parsed[i])}

RetainedHashes == {Fields(parsed[i])[1] : i \in RetainedLines}

\* The sizes the retained records declare (a wildcard declares none).
DeclaredSizes ==
  {ParseInt(Fields(parsed[i])[SizeField(parsed[i])]).val :
     i \in {j \in RetainedLines : ~IsWildcard(parsed[j])}}

\* The last retained line that carries hash h.
LastLineOf(h) ==
  CHOOSE i \in RetainedLines :
    /\ Fields(parsed[i])[1] = h
    /\ \A j \in RetainedLines : Fields(parsed[j])[1] = h => j <= i

\* Hashes and sizes the queries are tried on: every hash of a modelled line
\* and strings before, between and after them.
ProbeHashes ==
  {Split(l, ":")[1] : l \in HdbLines} \cup {Split(l, ",")[1] : l \in CsvLines}
  \cup { <<>>, <<"a">>, <<"a","b","c">>, <<"z">>,
         <<"f","f","f","f","f","f","f","f","f","f","f","f","f","f","f","f",
           "f","f","f","f","f","f","f","f","f","f","f","f","f","f","f","f">> }

ProbeSizes == (0 - 2)..8

\* The last load returned nil and no other is running.
Loaded == pc = "idle" /\ err = "nil"

\* The last load was a LoadAll that returned nil.
Ready == Loaded /\ call = "LoadAll"

\* The last load returned an error.
Failed == pc = "idle" /\ err = "error"

RECURSIVE IsSortedStr(_)
IsSortedStr(s) ==
  Len(s) < 2 \/ (~StrLess(s[2], s[1]) /\ IsSortedStr(Tail(s)))

\* ------------------------------------------------------------------ claims

\* C1: after LoadAll has returned nil, HasSigWithHash answers true, without
\* panic or error, for the hash of every retained record, with UseBloom
\* false (binary search) and with UseBloom true (Bloom filter).
C1_NoFalseNegatives ==
  Ready =>
    \A h \in RetainedHashes :
      HasSigWithHash(h) = [panic |-> FALSE, val |-> TRUE, err |-> "nil"]

\* C1 witness: LoadAll returned nil with the Bloom filter in use, two
\* different hashes were retained, read in descending order, and the filter
\* still rejects some hash that was not retained.
C1_Witness ==
  /\ Ready
  /\ UseBloom
  /\ Len(parsed) = 2
  /\ RetainedLines = {1, 2}
  /\ StrLess(Fields(parsed[2])[1], Fields(parsed[1])[1])
  /\ \E h \in ProbeHashes \ RetainedHashes : ~HasSigWithHash(h).val

\* C2: with UseBloom false, after a load that returned nil the hash list is
\* in ascending order and HasSigWithHash answers false for every string
\* that is not the hash of a retained record, whatever the order of the
\* lines.
C2_ExactWithoutBloom ==
  (Loaded /\ ~UseBloom) =>
    /\ IsSortedStr(hashes)
    /\ \A h \in ProbeHashes \ RetainedHashes :
         HasSigWithHash(h) = [panic |-> FALSE, val |-> FALSE, err |-> "nil"]

\* C2 witness: without the filter, two hashes retained in descending order
\* of reading and a probe strictly between them that no record carries.
C2_Witness ==
  /\ Loaded
  /\ ~UseBloom
  /\ Len(parsed) = 2
  /\ RetainedLines = {1, 2}
  /\ StrLess(Fields(parsed[2])[1], Fields(parsed[1])[1])
  /\ \E h \in ProbeHashes \ RetainedHashes :
       /\ StrLess(Fields(parsed[2])[1], h)
       /\ StrLess(h, Fields(parsed[1])[1])

\* A step of the scanner loop that reads a wildcard line of a hash-database
\* file, and one that reads a malformed line.
ReadsLine == Len(parsed') = Len(parsed) + 1

ReadsWildcard == ReadsLine /\ IsWildcard(parsed'[Len(parsed')])

ReadsMalformed == ReadsLine /\ Malformed(parsed'[Len(parsed')])

\* C3 (as claimed): after a load that returned nil, HasSigWithSize(n) is
\* true exactly when sizeAlwaysTrue is set or a retained record declares n.
C3_SizeIffDeclared ==
  Loaded =>
    \A n \in ProbeSizes :
      HasSigWithSize(n).val <=> (sizeAlwaysTrue \/ n \in DeclaredSizes)

\* C4: once a wildcard line has been read under UnknownSizeAction = 1,
\* sizeAlwaysTrue is set in every later state, whatever was done since, and
\* HasSigWithSize answers true for every size.
C4_SwitchIsOneWay ==
  (UnknownSizeAction = 1 /\ \E i \in 1..Len(parsed) : IsWildcard(parsed[i])) =>
    /\ sizeAlwaysTrue
    /\ \A n \in ProbeSizes :
         HasSigWithSize(n) = [val |-> TRUE, err |-> "nil"]

\* C4 witness: the wildcard was read first, another line and the end of a
\* later load followed, and a size that no record declares is answered true.
C4_Witness ==
  /\ UnknownSizeAction = 1
  /\ Len(parsed) = 2
  /\ IsWildcard(parsed[1])
  /\ ~IsWildcard(parsed[2])
  /\ Loaded
  /\ \E n \in ProbeSizes \ DeclaredSizes : HasSigWithSize(n).val

\* C5: under UnknownSizeAction = 0, the step that reads a wildcard line of
\* a hash-database file changes neither the hash list, the size list, the
\* map, the switch nor the filter.
C5_SkipChangesNothing ==
  [][(UnknownSizeAction = 0 /\ ReadsWildcard) =>
       UNCHANGED <<hashes, sizes, hashToItem, sizeAlwaysTrue, bloomFilter>>]_vars

\* C5 witness: a wildcard line has just been skipped in a file whose first
\* line was kept.
C5_Witness ==
  /\ UnknownSizeAction = 0
  /\ pc = "file"
  /\ Len(parsed) = 2
  /\ IsWildcard(parsed[2])
  /\ Len(hashes) = 1
  /\ DOMAIN hashToItem.items = {hashes[1]}

\* C6 (as claimed): for every value of UnknownSizeAction, the step that
\* reads a wildcard line into an initialised DB either changes no index or
\* appends the hash and leaves the switch set.
C6_OnlyTwoModes ==
  [][(hashToItem.alloc /\ ReadsWildcard) =>
       \/ UNCHANGED <<hashes, sizes, hashToItem, sizeAlwaysTrue>>
       \/ /\ hashes' = Append(hashes, Fields(parsed'[Len(parsed')])[1])
          /\ sizeAlwaysTrue']_vars

\* C7 (as claimed): the step that reads a malformed line into an
\* initialised DB makes the load return an error to its caller.
C7_MalformedReturnsError ==
  [][(hashToItem.alloc /\ ReadsMalformed) =>
       (pc' = "idle" /\ err' = "error")]_vars

\* C8 (as claimed): after a load that returned an error, every query ends
\* with an error outcome.
C8_FailedQueriesFail ==
  Failed =>
    /\ \A h \in ProbeHashes :
         /\ HasSigWithHash(h).err # "nil"
         /\ GetItemByHash(h).err \notin {"nil", "not found"}
    /\ \A n \in ProbeSizes : HasSigWithSize(n).err # "nil"

\* The hash, size and name of a record.
Core(r) == [Hash |-> r.Hash, Filesize |-> r.Filesize,
            MalwareName |-> r.MalwareName]

\* The record the files declare for hash h: that of the last retained line
\* carrying h, with -1 as the size of a wildcard.
DeclaredRecord(h) ==
  LET p == parsed[LastLineOf(h)]
  IN  [Hash |-> h,
       Filesize |-> IF IsWildcard(p) THEN 0 - 1
                    ELSE ParseInt(Fields(p)[SizeField(p)]).val,
       MalwareName |-> Fields(p)[LabelField(p)]]

\* C9 (as claimed): after a load that returned nil, GetItemByHash(h)
\* returns the record declared for h when h is retained and "not found"
\* otherwise, with UseBloom true as with UseBloom false.
C9_GetItemByHash ==
  Loaded =>
    \A h \in ProbeHashes :
      LET r == GetItemByHash(h)
      IN  IF h \in RetainedHashes
          THEN /\ r.err = "nil"
               /\ {Core(x) : x \in r.item} = {DeclaredRecord(h)}
          ELSE r = [item |-> {}, err |-> "not found"]

\* C10 (as claimed): after a load that returned nil, Count is the number of
\* records in the hash-to-record map.
C10_CountIsMapSize ==
  Loaded => GetHDBStats.Count = Cardinality(DOMAIN hashToItem.items)

\* C10 (amended): after a load that returned nil, Count is the number of
\* retained lines, a hash counted once for every line that carries it, and
\* so at least the number of records in the map.
C10_CountIsRetainedLines ==
  Loaded =>
    /\ GetHDBStats.Count = Cardinality(RetainedLines)
    /\ GetHDBStats.Count >= Cardinality(DOMAIN hashToItem.items)

\* C10 witness: two retained lines carry the same hash: Count is 2 and the
\* map holds one record.
C10_Witness ==
  /\ Loaded
  /\ Cardinality(RetainedLines) = 2
  /\ Cardinality(RetainedHashes) = 1
  /\ GetHDBStats.Count = 2
  /\ Cardinality(DOMAIN hashToItem.items) = 1

\* The lines that repeat the hash of an earlier line with a different name,
\* both lines retained with all their fields.
DuplicateLines ==
  {j \in RetainedLines :
     /\ ~Malformed(parsed[j])
     /\ \E i \in RetainedLines :
          /\ i < j
          /\ Fields(parsed[i])[1] = Fields(parsed[j])[1]
          /\ ~Malformed(parsed[i])
          /\ Fields(parsed[i])[LabelField(parsed[i])]
               # Fields(parsed[j])[LabelField(parsed[j])]}

\* The map holds exactly one record for the hash of line j, that of the
\* last line that carries it, and a finished load left the hash findable.
OneRecordLastWins(j) ==
  LET h == Fields(parsed[j])[1]
  IN  /\ Cardinality({k \in DOMAIN hashToItem.items :
                        hashToItem.items[k].Hash = h}) = 1
      /\ Core(hashToItem.items[h]) = DeclaredRecord(h)
      /\ (Loaded /\ (call = "LoadAll" \/ ~UseBloom)) =>
           HasSigWithHash(h) = [panic |-> FALSE, val |-> TRUE, err |-> "nil"]

\* C11: when a line repeats the hash of an earlier line with a different
\* name, reading it does not crash: the only panic that can follow it
\* before another line is read is that of LoadBloom on a false-positive
\* rate outside (0, 1). While the process runs, and until Init replaces
\* the map, the map holds exactly one record for that hash, the one of the
\* line read last, and after the load HasSigWithHash finds the hash.
C11_DuplicateHash ==
  \A j \in DuplicateLines :
    /\ (pc = "crashed" /\ Len(parsed) = j) =>
         /\ ext = ""
         /\ UseBloom
         /\ ~ValidRate(BloomFalsePositiveRate)
    /\ (pc # "crashed" /\ j > initAt) => OneRecordLastWins(j)

\* C11 witness: LoadAll returned nil after reading ab:7:X and then ab:3:Y;
\* the hash list holds the hash twice and the map holds the second record.
C11_Witness ==
  /\ Ready
  /\ initAt = 0
  /\ DuplicateLines = {2}
  /\ Len(parsed) = 2
  /\ RetainedLines = {1, 2}
  /\ Fields(parsed[1])[1] = Fields(parsed[2])[1]
  /\ Fields(parsed[1])[LabelField(parsed[1])]
       # Fields(parsed[2])[LabelField(parsed[2])]
  /\ Len(hashes) = 2
  /\ Cardinality(DOMAIN hashToItem.items) = 1
  /\ hashToItem.items[hashes[1]].MalwareName
       = Fields(parsed[2])[LabelField(parsed[2])]

\* C12 (as claimed): in every state in which the process runs and no load
\* is in progress, every query returns a result and none panics.
C12_QueriesNeverPanic ==
  pc = "idle" =>
    /\ \A h \in ProbeHashes :
         /\ ~HasSigWithHash(h).panic
         /\ GetItemByHash(h).err \in {"nil", "not found"}
    /\ \A n \in ProbeSizes :
         /\ HasSigWithSize(n).val \in BOOLEAN
         /\ \A r \in GetItemBySize(n) : r.err \in {"nil", "not found"}

RECURSIVE IsSortedInt(_)
IsSortedInt(s) ==
  Len(s) < 2 \/ (s[1] <= s[2] /\ IsSortedInt(Tail(s)))

\* The number written to the size list for a retained line: the declared
\* size, or -1 for a wildcard.
ListedSize(p) ==
  IF IsWildcard(p) THEN 0 - 1
  ELSE ParseInt(Fields(p)[SizeField(p)]).val

\* C16 (as claimed): after a load that returned nil the size list is in
\* ascending order and holds only sizes that retained records declare, one
\* per retained record that declares a size; a wildcard record adds none.
C16_OnlyDeclaredSizes ==
  Loaded =>
    /\ IsSortedInt(sizes)
    /\ \A i \in DOMAIN sizes : sizes[i] \in DeclaredSizes
    /\ Len(sizes) =
         Cardinality({i \in RetainedLines : ~IsWildcard(parsed[i])})

\* C16 (amended): after a load that returned nil the size list is in
\* ascending order and holds one element per retained record: its declared
\* size, or -1 for a retained wildcard record.
C16_SizesWithSentinel ==
  Loaded =>
    /\ IsSortedInt(sizes)
    /\ Len(sizes) = Cardinality(RetainedLines)
    /\ \A i \in DOMAIN sizes : sizes[i] \in ProbeSizes
    /\ \A v \in ProbeSizes :
         Cardinality({i \in DOMAIN sizes : sizes[i] = v})
           = Cardinality({i \in RetainedLines : ListedSize(parsed[i]) = v})

\* C16 witness: under the Disable policy a record of size 7 was read before
\* a wildcard record; after the load the list is -1, 7.
C16_Witness ==
  /\ Loaded
  /\ UnknownSizeAction = 1
  /\ sizeAlwaysTrue
  /\ Len(parsed) = 2
  /\ ~IsWildcard(parsed[1])
  /\ IsWildcard(parsed[2])
  /\ sizes = <<0 - 1, 7>>

\* The retained lines read by the load in progress or last returned, and
\* those read by the loads before it.
LinesOfThisLoad == {i \in RetainedLines : i > loadStart}
LinesOfEarlierLoads == {i \in RetainedLines : i <= loadStart}

\* C17 (as claimed): after a load that returned an error, the records it
\* read before failing are not observable: Count is the count before the
\* load, and a hash or a size that only this load read is reported absent.
C17_NoPartialDatabase ==
  Failed =>
    /\ GetHDBStats.Count = Cardinality(LinesOfEarlierLoads)
    /\ \A i \in LinesOfThisLoad :
         LET h == Fields(parsed[i])[1]
             n == ListedSize(parsed[i])
         IN  /\ (\A j \in LinesOfEarlierLoads : Fields(parsed[j])[1] # h) =>
                  /\ GetItemByHash(h).item = {}
                  /\ ~UseBloom => ~HasSigWithHash(h).val
             /\ (/\ ~sizeAlwaysTrue
                 /\ \A j \in LinesOfEarlierLoads : ListedSize(parsed[j]) # n)
                  => ~HasSigWithSize(n).val

\* C18 (as claimed): after a load that returned nil, the hash list, the
\* size list, the map and Count hold exactly the records that load read,
\* with nothing carried over from an earlier load.
C18_RebuiltOnEachLoad ==
  Loaded =>
    /\ Len(hashes) = Cardinality(LinesOfThisLoad)
    /\ Len(sizes) = Cardinality(LinesOfThisLoad)
    /\ DOMAIN hashToItem.items
         = {Fields(parsed[i])[1] : i \in LinesOfThisLoad}
    /\ GetHDBStats.Count = Cardinality(LinesOfThisLoad)

\* C20 (as claimed): in every state reached by loads that returned nil (no
\* load running, the last load returned nil and no load before it read a
\* line), the strings of the hash list are the keys of the map;
\* GetItemByHash then never returns no record with a nil error, and with
\* UseBloom false it never reports not-found for a hash HasSigWithHash
\* reports present.
C20_ListMatchesMap ==
  (pc = "idle" /\ err # "error" /\ loadStart = 0) =>
    /\ {hashes[i] : i \in DOMAIN hashes} = DOMAIN hashToItem.items
    /\ \A h \in ProbeHashes :
         /\ ~(GetItemByHash(h).item = {} /\ GetItemByHash(h).err = "nil")
         /\ (~UseBloom /\ HasSigWithHash(h).val) =>
              GetItemByHash(h).err = "nil"

\* C15 (as claimed): with a false-positive rate outside (0, 1) no load
\* returns nil, no signature line is ever read and no record is indexed.
C15_InvalidConfigurationFailsFirst ==
  ~ValidRate(BloomFalsePositiveRate) =>
    /\ err # "nil"
    /\ parsed = <<>>
    /\ hashes = <<>>
    /\ sizes = <<>>
    /\ DOMAIN hashToItem.items = {}

\* C14 (as claimed): whenever scanFile has reported a file infected, the
\* file's digest is a key of the hash-to-record map, with and without the
\* Bloom filter.
C14_InfectedOnlyIfIndexed ==
  scan.report = "infected" => scan.file.digest \in DOMAIN hashToItem.items

\* C19: unless skip-size is set, scanFile asks HasSigWithSize for the file's
\* size before it reads the file; when the answer is false the file is
\* reported clean with nothing read, DataRead as before and HasSigWithHash
\* not called; the file is read, whole, and HasSigWithHash called only after
\* a size match or with skip-size set.
C19_SizeCheckBeforeRead ==
  /\ scan.sizeAsked =>
       /\ ~skipSize
       /\ scan.sizeExists = HasSigWithSize(scan.file.size).val
  /\ (scan.sizeAsked /\ ~scan.sizeExists) =>
       /\ scan.pc = "idle"
       /\ scan.report = "clean"
       /\ ~scan.hashAsked
       /\ stats.DataRead = scan.readBefore
  /\ (\/ scan.pc \in {"read", "hash"}
      \/ scan.hashAsked
      \/ stats.DataRead # scan.readBefore) =>
       (skipSize \/ (scan.sizeAsked /\ scan.sizeExists))
  /\ scan.hashAsked => stats.DataRead = scan.readBefore + scan.file.size
  /\ (~skipSize /\ scan.file.size # 0 /\ scan.pc # "size") => scan.sizeAsked

\* C19 witness: a database with a signature for 7-byte files only; the
\* second file scanned has 5 bytes and is reported clean after the size
\* check, with DataRead still the 7 bytes read from the first file.
C19_Witness ==
  /\ ~skipSize
  /\ sizes = <<7>>
  /\ stats.ScannedFiles = 2
  /\ stats.DataScanned = 12
  /\ stats.DataRead = 7
  /\ scan.file.size = 5
  /\ scan.sizeAsked
  /\ ~scan.sizeExists
  /\ scan.report = "clean"

\* C13: once the DB is loaded, every step of a worker, whatever the other
\* workers have in progress, leaves the hash list, the size list, the map,
\* the Bloom filter and the switch as they are, and a call that returns
\* returns what it would have returned alone.
C13_QueriesAreReadOnly ==
  [][workers' # workers =>
       /\ UNCHANGED <<hashes, sizes, hashToItem, bloomFilter, sizeAlwaysTrue>>
       /\ pc' = "idle"
       /\ \A w \in Workers :
            workers'[w].st = "returned" =>
              /\ workers'[w].ret = workers'[w].alone
              /\ workers'[w].ret.err \in {"nil", "not found"}]_vars

\* C13 witness: one worker has got true from HasSigWithHash with the Bloom
\* filter in use while the other is inside GetItemByHash for the same hash.
C13_Witness ==
  /\ DatabaseLoaded
  /\ UseBloom
  /\ workers["w1"].st = "returned"
  /\ workers["w1"].op = "HasSigWithHash"
  /\ workers["w1"].ret.val
  /\ workers["w2"].st = "called"
  /\ workers["w2"].op = "GetItemByHash"
  /\ workers["w2"].hash = workers["w1"].hash
  /\ workers["w2"].alone.item # {}

\* C21 (as claimed): after a load that returned nil with the switch not
\* tripped, for every size n HasSigWithSize(n) is true exactly when
\* GetItemBySize(n) returns a record, and that record has Filesize n, also
\* when lines with the same hash declare different sizes.
C21_SizeTestAgreesWithLookup ==
  (Loaded /\ ~sizeAlwaysTrue) =>
    \A n \in ProbeSizes :
      /\ HasSigWithSize(n).val <=>
           (\A r \in GetItemBySize(n) : r.err = "nil" /\ r.item # {})
      /\ \A r \in GetItemBySize(n) :
           \A it \in r.item : it.Filesize = n

\* A retained line declares this file: its hash is the file's digest and
\* its size the file's size.
SignatureOf(f) ==
  {i \in RetainedLines :
     /\ ~IsWildcard(parsed[i])
     /\ Fields(parsed[i])[1] = f.digest
     /\ ListedSize(parsed[i]) = f.size}

\* C22 (as claimed): every file scanFile has finished with, without a read
\* error, whose size and digest are those of a loaded signature has been
\* reported infected and counted in InfectedFiles, whatever its size.
C22_NoFalseNegatives ==
  (/\ scan.pc = "idle"
   /\ scan.report \in {"clean", "infected"}
   /\ SignatureOf(scan.file) # {}) =>
    /\ scan.report = "infected"
    /\ stats.InfectedFiles >= 1

====
